---- MODULE Spec2Model ----
(***************************************************************************)
(* Model of the FastAPI project scaffolder, fastapi-clean/assets/          *)
(* init_project.py: create_project(project_name, output_dir) and main().   *)
(*                                                                         *)
(* The filesystem is a function from paths (sequences of path segments) to *)
(* entries (a directory, or a file with its content).  A file's content is *)
(* a sequence of lines, a line a sequence of text fragments.  Every step   *)
(* of create_project that touches the filesystem is one action, so that    *)
(* failures partway and interleavings of two invocations are behaviours.   *)
(* The environment may refuse any creation or write (permission denied,    *)
(* disk full); stat and reads of existing files succeed.                   *)
(***************************************************************************)
EXTENDS Integers, Sequences, FiniteSets, TLC

\* ------------------------------------------------------------------ bounds

\* How many times main() is run one after the other in the sequential
\* specifications.
MaxCalls == 2

\* ----------------------------------------------------------------- manifests

\* init_project.py:12-26.  A target is the sequence of the segments of the
\* relative path; source "" means "create an empty file".
TEMPLATES ==
  << [target |-> <<"app", "__init__.py">>,                source |-> ""],
     [target |-> <<"app", "main.py">>,                    source |-> "main.py"],
     [target |-> <<"app", "core", "__init__.py">>,        source |-> ""],
     [target |-> <<"app", "core", "config.py">>,          source |-> "config.py"],
     [target |-> <<"app", "core", "dependencies.py">>,    source |-> "dependencies.py"],
     [target |-> <<"app", "routers", "__init__.py">>,     source |-> "routers_init.py"],
     [target |-> <<"app", "routers", "health.py">>,       source |-> "router_health.py"],
     [target |-> <<"app", "services", "__init__.py">>,    source |-> ""],
     [target |-> <<"app", "services", "health_service.py">>, source |-> "service_health.py"],
     [target |-> <<"app", "schemas", "__init__.py">>,     source |-> ""],
     [target |-> <<"app", "schemas", "health.py">>,       source |-> "schemas_health.py"],
     [target |-> <<"tests", "__init__.py">>,              source |-> ""],
     [target |-> <<"tests", "conftest.py">>,              source |-> "conftest.py"] >>

\* init_project.py:28-35.
ROOT_FILES ==
  << [target |-> <<"Dockerfile">>,                  source |-> "Dockerfile"],
     [target |-> <<"docker-compose.yml">>,          source |-> "docker-compose.yml"],
     [target |-> <<"docker-compose.override.yml">>, source |-> "docker-compose.override.yml"],
     [target |-> <<"docker-compose.prod.yml">>,     source |-> "docker-compose.prod.yml"],
     [target |-> <<"requirements.txt">>,            source |-> "requirements.txt"],
     [target |-> <<"pyproject.toml">>,              source |-> "pyproject.toml"] >>

\* The template keys the two manifests name.
TemplateKeys ==
  {TEMPLATES[i].source : i \in 1..Len(TEMPLATES)} \ {""}

RootKeys ==
  {ROOT_FILES[i].source : i \in 1..Len(ROOT_FILES)}

\* init_project.py:39: the directory that holds init_project.py and the assets.
assets_dir == <<"skill", "assets">>

\* The assets that the repository ships beside init_project.py: conftest.py
\* and the six root files are not among them.
SrcAssets ==
  {"main.py", "config.py", "dependencies.py", "routers_init.py",
   "router_health.py", "service_health.py", "schemas_health.py"}

\* The asset stores a run may find: everything shipped, the repository's own
\* set, nothing at all, and two mixed ones.
AssetStores ==
  { TemplateKeys \cup RootKeys,
    SrcAssets,
    {},
    (TemplateKeys \cup RootKeys) \ {"routers_init.py", "Dockerfile"},
    {"conftest.py", "pyproject.toml", "requirements.txt"} }

\* ------------------------------------------------------------------- inputs

\* argv project_name: "" is what `init_project.py ""` passes.
Names == {"", "demo"}

\* argv -o/--output, as a path.
OutputDirs == {<<"tmp", "out">>}

Procs == {1, 2}

\* ------------------------------------------------------------------- paths

DirEntry == [kind |-> "dir", data |-> <<>>]

FileEntry(data) == [kind |-> "file", data |-> data]

\* pathlib's Path.parent; the root is its own parent.
Parent(p) == IF p = <<>> THEN <<>> ELSE SubSeq(p, 1, Len(p) - 1)

\* pathlib's `/` with a relative right-hand side of at most one segment:
\* joining "" leaves the path as it is.
Join(dir, name) == IF name = "" THEN dir ELSE Append(dir, name)

Range(q) == {q[i] : i \in 1..Len(q)}

IsPrefix(a, b) == Len(a) <= Len(b) /\ SubSeq(b, 1, Len(a)) = a

Exists(f, p) == p \in DOMAIN f

IsDir(f, p) == p \in DOMAIN f /\ f[p].kind = "dir"

IsFile(f, p) == p \in DOMAIN f /\ f[p].kind = "file"

Put(f, p, e) == (p :> e) @@ f

\* The outcome of a filesystem call: the filesystem after it, the error it
\* raised ("none" when it returned) with the path the error names, and the
\* paths the call created or opened for writing, in order.
Ok(f, w) == [fs |-> f, err |-> "none", path |-> <<>>, wrote |-> w]

Raise(f, kind, p, w) == [fs |-> f, err |-> kind, path |-> p, wrote |-> w]

\* Call r, which ran after the writes w of earlier calls.
After(w, r) == [r EXCEPT !.wrote = w \o r.wrote]

\* -------------------------------------------------------- filesystem calls

\* The proper ancestors of p, the root included.
Ancestors(p) == {SubSeq(p, 1, k) : k \in 0..(Len(p) - 1)}

\* Why a path cannot be created at p, "none" when it can: a file among its
\* ancestors (ENOTDIR) or a missing parent (ENOENT).
ParentError(f, p) ==
  IF \E a \in Ancestors(p) : IsFile(f, a) THEN "NotADirectoryError"
  ELSE IF ~Exists(f, Parent(p)) THEN "FileNotFoundError"
  ELSE "none"

\* os.mkdir(p).  env_ok = FALSE is the environment refusing a creation that
\* would otherwise succeed (permission denied, disk full).
OsMkdir(f, p, env_ok) ==
  IF Exists(f, p) THEN Raise(f, "FileExistsError", p, <<>>)
  ELSE IF ParentError(f, p) # "none" THEN Raise(f, ParentError(f, p), p, <<>>)
  ELSE IF ~env_ok THEN Raise(f, "OSError", p, <<>>)
  ELSE Ok(Put(f, p, DirEntry), <<p>>)

WithLeft(r, n) ==
  [fs |-> r.fs, err |-> r.err, path |-> r.path, wrote |-> r.wrote, left |-> n]

\* pathlib's Path.mkdir(parents, exist_ok), as the standard library writes it:
\* os.mkdir; on FileNotFoundError create the parents with exist_ok and try
\* again; on any other OSError raise unless exist_ok and the path is a
\* directory.  budget is the number of directories the environment lets this
\* call create before it refuses.
RECURSIVE PathMkdir(_, _, _, _, _)
PathMkdir(f, p, parents, exist_ok, budget) ==
  LET r == OsMkdir(f, p, budget > 0)
  IN  IF r.err = "none" THEN WithLeft(r, budget - 1)
      ELSE IF r.err = "FileNotFoundError"
        THEN IF ~parents \/ Parent(p) = p THEN WithLeft(r, budget)
             ELSE LET r1 == PathMkdir(f, Parent(p), TRUE, TRUE, budget)
                  IN  IF r1.err # "none" THEN r1
                      ELSE After(r1.wrote,
                                 PathMkdir(r1.fs, p, FALSE, exist_ok, r1.left))
      ELSE IF ~exist_ok \/ ~IsDir(f, p) THEN WithLeft(r, budget)
      ELSE WithLeft(Ok(f, <<>>), budget)

\* The faults the environment can put into the writing of one file: none,
\* the open refused (nothing changes), or the write refused after the open
\* created or truncated the file.
WriteFaults == {"none", "open", "write"}

\* open(p, "w") followed by a write of data and a close.
OpenWrite(f, p, data, fault) ==
  IF ParentError(f, p) # "none" THEN Raise(f, ParentError(f, p), p, <<>>)
  ELSE IF IsDir(f, p) THEN Raise(f, "IsADirectoryError", p, <<>>)
  ELSE IF fault = "open" THEN Raise(f, "OSError", p, <<>>)
  ELSE IF fault = "write"
    THEN Raise(Put(f, p, FileEntry(<<>>)), "OSError", p, <<p>>)
  ELSE Ok(Put(f, p, FileEntry(data)), <<p>>)

\* Path.write_text(data).
WriteText(f, p, data, fault) == OpenWrite(f, p, data, fault)

\* Path.touch(): an existing path only has its times updated; a missing one
\* is created empty.
Touch(f, p, fault) ==
  IF Exists(f, p) THEN Ok(f, <<>>)
  ELSE IF ParentError(f, p) # "none" THEN Raise(f, ParentError(f, p), p, <<>>)
  ELSE IF fault # "none" THEN Raise(f, "OSError", p, <<>>)
  ELSE Ok(Put(f, p, FileEntry(<<>>)), <<p>>)

\* shutil.copy(src, dst): into dst itself, or into dst/<name of src> when dst
\* is a directory; the content of src replaces what was there.
ShutilCopy(f, src, dst, fault) ==
  LET to == IF IsDir(f, dst) THEN Append(dst, src[Len(src)]) ELSE dst
  IN  IF ~Exists(f, src) THEN Raise(f, "FileNotFoundError", src, <<>>)
      ELSE IF IsDir(f, src) THEN Raise(f, "IsADirectoryError", src, <<>>)
      ELSE OpenWrite(f, to, f[src].data, fault)

\* ------------------------------------------------------ create_project steps

\* init_project.py:40.
project_dir(a) == Join(a.output_dir, a.project_name)

\* A check that takes only a directory for an existing destination.
DestinationIsDir(f, pd) == IsDir(f, pd)

\* init_project.py:42: project_dir.exists().
DestinationExists(f, pd) == Exists(f, pd)

\* mkdir(parents=True, exist_ok=True).
ExistOkTrue == TRUE

\* init_project.py:46: mkdir(parents=True) leaves exist_ok at its default.
ProjectDirExistOk == FALSE

\* An iteration that never copies: every target is touched.
TemplateEntryTouchOnly(f, pd, e, budget, fault) ==
  LET target == pd \o e.target
      made   == PathMkdir(f, Parent(target), TRUE, TRUE, budget)
  IN  IF made.err # "none" THEN Raise(made.fs, made.err, made.path, made.wrote)
      ELSE After(made.wrote, Touch(made.fs, target, fault))

\* An iteration that creates the parent without exist_ok and skips the entry
\* when the parent is already there.
TemplateEntrySkipExistingParent(f, pd, e, budget, fault) ==
  LET target == pd \o e.target
      source == Append(assets_dir, e.source)
      made   == PathMkdir(f, Parent(target), TRUE, FALSE, budget)
  IN  IF made.err = "FileExistsError" THEN Ok(f, <<>>)
      ELSE IF made.err # "none" THEN Raise(made.fs, made.err, made.path, made.wrote)
      ELSE After(made.wrote,
             IF e.source # "" /\ Exists(made.fs, source)
               THEN ShutilCopy(made.fs, source, target, fault)
               ELSE Touch(made.fs, target, fault))

\* init_project.py:49-59: one iteration of the loop over TEMPLATES.
TemplateEntry(f, pd, e, budget, fault) ==
  LET target == pd \o e.target
      source == Append(assets_dir, e.source)
      made   == PathMkdir(f, Parent(target), TRUE, TRUE, budget)
  IN  IF made.err # "none" THEN Raise(made.fs, made.err, made.path, made.wrote)
      ELSE After(made.wrote,
             IF e.source # ""
               THEN IF Exists(made.fs, source)
                      THEN ShutilCopy(made.fs, source, target, fault)
                      ELSE Touch(made.fs, target, fault)
               ELSE Touch(made.fs, target, fault))

\* A second loop that degrades like the first: a missing asset leaves an
\* empty file.
RootEntryTouchMissing(f, pd, e, fault) ==
  LET target == pd \o e.target
      source == Append(assets_dir, e.source)
  IN  IF Exists(f, source) THEN ShutilCopy(f, source, target, fault)
      ELSE Touch(f, target, fault)

\* init_project.py:62-65: one iteration of the loop over ROOT_FILES.
RootEntry(f, pd, e, fault) ==
  LET target == pd \o e.target
      source == Append(assets_dir, e.source)
  IN  IF Exists(f, source) THEN ShutilCopy(f, source, target, fault)
      ELSE Ok(f, <<>>)

\* init_project.py:68: the text written to .env.example, line by line.
EnvExampleText ==
  << <<"PROJECT_NAME=", "fastapi-app">>,
     <<"VERSION=", "0.1.0">>,
     <<"DEBUG=", "false">> >>

\* init_project.py:71: the text written to README.md.
ReadmeText(project_name) ==
  << <<"# ", project_name>>,
     <<>>,
     <<"FastAPI Clean Architecture Application">> >>

\* init_project.py:67-68.
WriteEnvExample(f, pd, fault) ==
  WriteText(f, Append(pd, ".env.example"), EnvExampleText, fault)

\* A README written into output_dir instead of project_dir.
WriteReadmeInOutputDir(f, pd, project_name, fault) ==
  WriteText(f, Append(Parent(pd), "README.md"), ReadmeText(project_name), fault)

\* init_project.py:70-71.
WriteReadme(f, pd, project_name, fault) ==
  WriteText(f, Append(pd, "README.md"), ReadmeText(project_name), fault)

\* init_project.py:48-59: the first loop from entry i on, entry by entry in
\* the order of TEMPLATES, nothing refused.
RECURSIVE TemplatesFrom(_, _, _)
TemplatesFrom(f, pd, i) ==
  IF i > Len(TEMPLATES) THEN f
  ELSE TemplatesFrom(
         TemplateEntry(f, pd, TEMPLATES[i], Len(TEMPLATES[i].target), "none").fs,
         pd, i + 1)

\* init_project.py:61-65: the second loop from entry i on, in the order of
\* ROOT_FILES, nothing refused.
RECURSIVE RootFilesFrom(_, _, _)
RootFilesFrom(f, pd, i) ==
  IF i > Len(ROOT_FILES) THEN f
  ELSE RootFilesFrom(RootEntry(f, pd, ROOT_FILES[i], "none").fs, pd, i + 1)

\* init_project.py:46-71: the filesystem create_project leaves when it runs
\* from f to its end with nothing refused.
create_project(f, a) ==
  LET pd == project_dir(a)
      f1 == PathMkdir(f, pd, TRUE, ProjectDirExistOk, Len(pd)).fs
      f2 == TemplatesFrom(f1, pd, 1)
      f3 == RootFilesFrom(f2, pd, 1)
      f4 == WriteEnvExample(f3, pd, "none").fs
  IN  WriteReadme(f4, pd, a.project_name, "none").fs

\* -------------------------------------------------------------------- state

VARIABLES
  fs,       \* the filesystem: path -> entry
  pc,       \* per invocation: where create_project stands
  args,     \* per invocation: project_name and output_dir
  doneT,    \* per invocation: the TEMPLATES entries the first loop has done
  doneR,    \* per invocation: the ROOT_FILES entries the second loop has done
  ret,      \* per invocation: how create_project ended (return value or raise)
  stdout,   \* per invocation: the lines printed
  calls,    \* how many times main() was started
  fs0,      \* history: the filesystem when the invocation started
  written,  \* history: the paths the invocation created or opened for writing
  inOrder   \* history: every loop iteration so far took the next manifest entry

vars == <<fs, pc, args, doneT, doneR, ret, stdout, calls, fs0, written, inOrder>>

Terminal == {"done", "rejected", "failed"}

NoArgs == [project_name |-> "", output_dir |-> <<>>]

NoRet == [kind |-> "none", value |-> 0, exc |-> "", path |-> <<>>]

Returned(v) == [kind |-> "return", value |-> v, exc |-> "", path |-> <<>>]

Raised(r) == [kind |-> "raise", value |-> 0, exc |-> r.err, path |-> r.path]

Line(msg, name, dir) == [msg |-> msg, name |-> name, dir |-> dir]

\* init_project.py:81-91: the exit status of the process.  exit(main()) passes
\* create_project's return value on; an exception that nothing catches ends
\* the interpreter with status 1.
ExitCode(r) == IF r.kind = "return" THEN r.value ELSE 1

\* ------------------------------------------------------ initial filesystems

AssetData(key) == << <<"template of ", key>> >>

\* What is on disk whatever the output directory holds: the root, the skill
\* directory with init_project.py, and the assets of the store.
BaseFiles(store) ==
  { <<<<>>, DirEntry>>,
    <<<<"skill">>, DirEntry>>,
    <<assets_dir, DirEntry>>,
    <<Append(assets_dir, "init_project.py"), FileEntry(<< <<"#!/usr/bin/env python3">> >>)>> }
  \cup { <<Append(assets_dir, k), FileEntry(AssetData(k))>> : k \in store }

OldData == << <<"written by hand">> >>

OutStates ==
  {"no_parent", "no_out", "empty_out", "out_is_file", "sibling",
   "demo_is_file", "demo_empty", "demo_project"}

\* What the output directory /tmp/out holds before the first run.
OutFiles(st) ==
  LET tmp  == {<<<<"tmp">>, DirEntry>>}
      out  == tmp \cup {<<<<"tmp", "out">>, DirEntry>>}
      demo == out \cup {<<<<"tmp", "out", "demo">>, DirEntry>>}
  IN  CASE st = "no_parent"    -> {}
        [] st = "no_out"       -> tmp
        [] st = "empty_out"    -> out
        [] st = "out_is_file"  -> tmp \cup {<<<<"tmp", "out">>, FileEntry(OldData)>>}
        [] st = "sibling"      -> out \cup {<<<<"tmp", "out", "notes.txt">>, FileEntry(OldData)>>}
        [] st = "demo_is_file" -> out \cup {<<<<"tmp", "out", "demo">>, FileEntry(<<>>)>>}
        [] st = "demo_empty"   -> demo
        [] st = "demo_project" ->
             demo \cup {<<<<"tmp", "out", "demo", "app">>, DirEntry>>,
                        <<<<"tmp", "out", "demo", "app", "main.py">>, FileEntry(OldData)>>,
                        <<<<"tmp", "out", "demo", "README.md">>, FileEntry(OldData)>>}

FsOf(S) == [p \in {e[1] : e \in S} |-> (CHOOSE e \in S : e[1] = p)[2]]

InitialFs == {FsOf(BaseFiles(store) \cup OutFiles(st)) : store \in AssetStores, st \in OutStates}

\* The output directories the permuted runs start from.
PermOutStates == {"no_parent", "empty_out", "demo_project"}

PermInitialFs == {FsOf(BaseFiles(store) \cup OutFiles(st)) : store \in AssetStores, st \in PermOutStates}

Init ==
  /\ fs \in InitialFs
  /\ pc = [p \in Procs |-> "idle"]
  /\ args = [p \in Procs |-> NoArgs]
  /\ doneT = [p \in Procs |-> {}]
  /\ doneR = [p \in Procs |-> {}]
  /\ ret = [p \in Procs |-> NoRet]
  /\ stdout = [p \in Procs |-> <<>>]
  /\ calls = 0
  /\ fs0 = [p \in Procs |-> fs]
  /\ written = [p \in Procs |-> {}]
  /\ inOrder = [p \in Procs |-> TRUE]

\* ------------------------------------------------------------------ actions

\* init_project.py:81-87: main() parses argv and calls create_project.
Call(p) ==
  /\ pc[p] \in Terminal \cup {"idle"}
  /\ calls < MaxCalls
  /\ \E n \in Names, o \in OutputDirs :
       args' = [args EXCEPT ![p] = [project_name |-> n, output_dir |-> o]]
  /\ pc' = [pc EXCEPT ![p] = "exists"]
  /\ doneT' = [doneT EXCEPT ![p] = {}]
  /\ doneR' = [doneR EXCEPT ![p] = {}]
  /\ ret' = [ret EXCEPT ![p] = NoRet]
  /\ stdout' = [stdout EXCEPT ![p] = <<>>]
  /\ calls' = calls + 1
  /\ fs0' = [fs0 EXCEPT ![p] = fs]
  /\ written' = [written EXCEPT ![p] = {}]
  /\ inOrder' = [inOrder EXCEPT ![p] = TRUE]
  /\ UNCHANGED fs

\* init_project.py:42-44.
CheckExists(p) ==
  /\ pc[p] = "exists"
  /\ IF DestinationExists(fs, project_dir(args[p]))
       THEN /\ stdout' = [stdout EXCEPT ![p] =
                 Append(@, Line("Error: Directory already exists", "", project_dir(args[p])))]
            /\ ret' = [ret EXCEPT ![p] = Returned(1)]
            /\ pc' = [pc EXCEPT ![p] = "rejected"]
       ELSE /\ pc' = [pc EXCEPT ![p] = "mkdir"]
            /\ UNCHANGED <<stdout, ret>>
  /\ UNCHANGED <<fs, args, doneT, doneR, calls, fs0, written, inOrder>>

\* A step that removes on an error what the invocation has written.
OutcomeWithRollback(p, r, next) ==
  /\ fs' = IF r.err = "none" THEN r.fs
           ELSE [q \in DOMAIN r.fs \ (written[p] \cup Range(r.wrote)) |-> r.fs[q]]
  /\ written' = [written EXCEPT ![p] = @ \cup Range(r.wrote)]
  /\ IF r.err = "none"
       THEN /\ pc' = [pc EXCEPT ![p] = next]
            /\ UNCHANGED ret
       ELSE /\ pc' = [pc EXCEPT ![p] = "failed"]
            /\ ret' = [ret EXCEPT ![p] = Raised(r)]

\* What a filesystem step leaves behind: the filesystem and the paths written
\* in any case; on an error the exception leaves create_project and main.
Outcome(p, r, next) ==
  /\ fs' = r.fs
  /\ written' = [written EXCEPT ![p] = @ \cup Range(r.wrote)]
  /\ IF r.err = "none"
       THEN /\ pc' = [pc EXCEPT ![p] = next]
            /\ UNCHANGED ret
       ELSE /\ pc' = [pc EXCEPT ![p] = "failed"]
            /\ ret' = [ret EXCEPT ![p] = Raised(r)]

\* init_project.py:46, project_dir.mkdir(parents=True), in the three steps
\* pathlib takes.  First os.mkdir(project_dir): it creates the directory, or
\* raises; a FileNotFoundError is caught and the parents are created next.
MkProjectDir(p) ==
  /\ pc[p] = "mkdir"
  /\ \E budget \in 0..1 :
       LET r == PathMkdir(fs, project_dir(args[p]), FALSE, ProjectDirExistOk, budget)
       IN  IF r.err = "FileNotFoundError" /\ Parent(project_dir(args[p])) # project_dir(args[p])
             THEN /\ pc' = [pc EXCEPT ![p] = "mkdir_parents"]
                  /\ UNCHANGED <<fs, written, ret>>
             ELSE Outcome(p, r, "templates")
  /\ UNCHANGED <<args, doneT, doneR, stdout, calls, fs0, inOrder>>

\* Then self.parent.mkdir(parents=True, exist_ok=True).
MkParents(p) ==
  /\ pc[p] = "mkdir_parents"
  /\ \E budget \in 0..(Len(project_dir(args[p])) - 1) :
       Outcome(p, PathMkdir(fs, Parent(project_dir(args[p])), TRUE, TRUE, budget),
               "mkdir_retry")
  /\ UNCHANGED <<args, doneT, doneR, stdout, calls, fs0, inOrder>>

\* Then self.mkdir(mode, parents=False, exist_ok=exist_ok): os.mkdir once more.
MkProjectDirRetry(p) ==
  /\ pc[p] = "mkdir_retry"
  /\ \E budget \in 0..1 :
       Outcome(p, PathMkdir(fs, project_dir(args[p]), FALSE, ProjectDirExistOk, budget),
               "templates")
  /\ UNCHANGED <<args, doneT, doneR, stdout, calls, fs0, inOrder>>

\* A loop that takes the entries from the last to the first.
NextInReverse(done, n) == CHOOSE i \in 1..n : i \notin done /\ \A j \in (i + 1)..n : j \in done

\* The entry a loop over a manifest of n entries takes next, in manifest order.
NextInOrder(done, n) == CHOOSE i \in 1..n : i \notin done /\ \A j \in 1..(i - 1) : j \in done

\* The directories the environment may let one iteration of the first loop
\* create before it refuses: an entry needs at most Len(target) - 1.
Budgets(i) == 0..(Len(TEMPLATES[i].target) - 1)

NoFault == {"none"}

\* init_project.py:48-59: iteration i of the first loop, the environment
\* choosing among the given faults.
TemplateStep(p, i, budgets, faults) ==
  /\ pc[p] = "templates"
  /\ i \in (1..Len(TEMPLATES)) \ doneT[p]
  /\ \E budget \in budgets, fault \in faults :
       Outcome(p, TemplateEntry(fs, project_dir(args[p]), TEMPLATES[i], budget, fault),
               IF doneT[p] \cup {i} = 1..Len(TEMPLATES) THEN "root_files" ELSE "templates")
  /\ doneT' = [doneT EXCEPT ![p] = IF pc'[p] = "failed" THEN @ ELSE @ \cup {i}]
  /\ inOrder' = [inOrder EXCEPT ![p] = @ /\ i = NextInOrder(doneT[p], Len(TEMPLATES))]
  /\ UNCHANGED <<args, doneR, stdout, calls, fs0>>

\* init_project.py:61-65: iteration i of the second loop.
RootStep(p, i, faults) ==
  /\ pc[p] = "root_files"
  /\ i \in (1..Len(ROOT_FILES)) \ doneR[p]
  /\ \E fault \in faults :
       Outcome(p, RootEntry(fs, project_dir(args[p]), ROOT_FILES[i], fault),
               IF doneR[p] \cup {i} = 1..Len(ROOT_FILES) THEN "env_example" ELSE "root_files")
  /\ doneR' = [doneR EXCEPT ![p] = IF pc'[p] = "failed" THEN @ ELSE @ \cup {i}]
  /\ inOrder' = [inOrder EXCEPT ![p] = @ /\ i = NextInOrder(doneR[p], Len(ROOT_FILES))]
  /\ UNCHANGED <<args, doneT, stdout, calls, fs0>>

\* The loops as the code runs them: a dict is iterated in insertion order.
CopyTemplate(p) ==
  /\ pc[p] = "templates"
  /\ LET i == NextInOrder(doneT[p], Len(TEMPLATES))
     IN  TemplateStep(p, i, Budgets(i), WriteFaults)

CopyRootFile(p) ==
  /\ pc[p] = "root_files"
  /\ RootStep(p, NextInOrder(doneR[p], Len(ROOT_FILES)), WriteFaults)

\* init_project.py:67-68.
EnvExample(p) ==
  /\ pc[p] = "env_example"
  /\ \E fault \in WriteFaults :
       Outcome(p, WriteEnvExample(fs, project_dir(args[p]), fault), "readme")
  /\ UNCHANGED <<args, doneT, doneR, stdout, calls, fs0, inOrder>>

\* init_project.py:73-77: what a successful run prints.
SuccessLines(a) ==
  << Line("Project created at", a.project_name, project_dir(a)),
     Line("Next steps:", "", <<>>),
     Line("  cd", a.project_name, <<>>),
     Line("  cp .env.example .env", "", <<>>),
     Line("  docker compose up -d", "", <<>>) >>

\* init_project.py:70-78.
Readme(p) ==
  /\ pc[p] = "readme"
  /\ \E fault \in WriteFaults :
       LET r == WriteReadme(fs, project_dir(args[p]), args[p].project_name, fault)
       IN  /\ fs' = r.fs
           /\ written' = [written EXCEPT ![p] = @ \cup Range(r.wrote)]
           /\ IF r.err = "none"
                THEN /\ stdout' = [stdout EXCEPT ![p] = @ \o SuccessLines(args[p])]
                     /\ ret' = [ret EXCEPT ![p] = Returned(0)]
                     /\ pc' = [pc EXCEPT ![p] = "done"]
                ELSE /\ pc' = [pc EXCEPT ![p] = "failed"]
                     /\ ret' = [ret EXCEPT ![p] = Raised(r)]
                     /\ UNCHANGED stdout
  /\ UNCHANGED <<args, doneT, doneR, calls, fs0, inOrder>>

\* One process runs main() again and again.
Next ==
  \/ Call(1)
  \/ CheckExists(1)
  \/ MkProjectDir(1)
  \/ MkParents(1)
  \/ MkProjectDirRetry(1)
  \/ CopyTemplate(1)
  \/ CopyRootFile(1)
  \/ EnvExample(1)
  \/ Readme(1)

Spec == Init /\ [][Next]_vars

\* Two processes run main() once each with the same arguments, each step of
\* one interleaved with the steps of the other.
CallSame(p) ==
  /\ pc[p] = "idle"
  /\ Call(p)
  /\ \A q \in Procs \ {p} : pc[q] # "idle" => args'[p] = args[q]

Step(p) ==
  \/ CallSame(p)
  \/ CheckExists(p)
  \/ MkProjectDir(p)
  \/ MkParents(p)
  \/ MkProjectDirRetry(p)
  \/ CopyTemplate(p)
  \/ CopyRootFile(p)
  \/ EnvExample(p)
  \/ Readme(p)

NextConc == \E p \in Procs : Step(p)

SpecConc == Init /\ [][NextConc]_vars

\* One run of main() whose loops take the entries of each manifest in an
\* arbitrary order (the manifests permuted), the environment refusing nothing
\* during the loops.
CallFirst(p) ==
  /\ calls = 0
  /\ Call(p)

CopyTemplateAnyOrder(p) ==
  \E i \in 1..Len(TEMPLATES) :
    TemplateStep(p, i, {Len(TEMPLATES[i].target)}, NoFault)

CopyRootFileAnyOrder(p) ==
  \E i \in 1..Len(ROOT_FILES) : RootStep(p, i, NoFault)

NextPerm ==
  \/ CallFirst(1)
  \/ CheckExists(1)
  \/ MkProjectDir(1)
  \/ MkParents(1)
  \/ MkProjectDirRetry(1)
  \/ CopyTemplateAnyOrder(1)
  \/ CopyRootFileAnyOrder(1)
  \/ EnvExample(1)
  \/ Readme(1)

InitPerm ==
  /\ Init
  /\ fs \in PermInitialFs

SpecPerm == InitPerm /\ [][NextPerm]_vars

\* ------------------------------------------------------------ the claims

PD(p) == project_dir(args[p])

Called(p) == pc[p] # "idle"

\* A project name that is one path segment.
ValidName(n) == n # ""

ErrorLine(p) == Line("Error: Directory already exists", "", PD(p))

\* C1: whenever output_dir/project_name exists when create_project is called
\* (file or directory, empty or not, or left by an earlier successful call),
\* the call ends with the already-exists outcome, return value 1, and the
\* filesystem is what it was before the call: nothing created, modified or
\* removed.
C1_ExistingDestinationRejected ==
  \A p \in Procs :
    (Called(p) /\ Exists(fs0[p], PD(p))) =>
      /\ fs = fs0[p]
      /\ written[p] = {}
      /\ pc[p] \in {"exists", "rejected"}
      /\ pc[p] = "rejected" =>
           /\ ret[p] = Returned(1)
           /\ ExitCode(ret[p]) # 0
           /\ stdout[p] = <<ErrorLine(p)>>

\* C1 witness: a second call with the name of a first, successful call is
\* rejected.
C1_Witness ==
  /\ calls = 2
  /\ pc[1] = "rejected"
  /\ args[1].project_name = "demo"
  /\ IsFile(fs, Append(PD(1), "README.md"))
  /\ fs[Append(PD(1), "README.md")].data = ReadmeText("demo")

\* The layout of section 6 of the specification, as paths under project_dir.
LayoutEmpty ==
  { <<"app", "__init__.py">>, <<"app", "core", "__init__.py">>,
    <<"app", "services", "__init__.py">>, <<"app", "schemas", "__init__.py">>,
    <<"tests", "__init__.py">> }

LayoutRoutersInit == <<"app", "routers", "__init__.py">>

LayoutFromTemplate ==
  { <<<<"app", "main.py">>, "main.py">>,
    <<<<"app", "core", "config.py">>, "config.py">>,
    <<<<"app", "core", "dependencies.py">>, "dependencies.py">>,
    <<<<"app", "routers", "health.py">>, "router_health.py">>,
    <<<<"app", "services", "health_service.py">>, "service_health.py">>,
    <<<<"app", "schemas", "health.py">>, "schemas_health.py">>,
    <<<<"tests", "conftest.py">>, "conftest.py">> }

ZeroLength(f, q) == IsFile(f, q) /\ f[q].data = <<>>

NonEmptyFile(f, q) == IsFile(f, q) /\ f[q].data # <<>>

HasAsset(f, key) == IsFile(f, Append(assets_dir, key))

\* A copy of the template asset when the asset store holds it, else empty.
CopyOrEmpty(f, q, key) ==
  IF HasAsset(f, key)
    THEN NonEmptyFile(f, q) /\ f[q].data = f[Append(assets_dir, key)].data
    ELSE ZeroLength(f, q)

\* The call was made with a valid name and output_dir an empty directory.
IntoEmptyOutputDir(p) ==
  /\ Called(p)
  /\ ValidName(args[p].project_name)
  /\ IsDir(fs0[p], args[p].output_dir)
  /\ \A q \in DOMAIN fs0[p] : ~(IsPrefix(args[p].output_dir, q) /\ q # args[p].output_dir)

\* Nothing but the environment refusing a write stops the run.
OnlyEnvironmentStops(p) ==
  /\ pc[p] # "rejected"
  /\ pc[p] = "failed" => ret[p].exc = "OSError"

\* The asset store holds the template of each of the seven template files.
TemplatesShipped(f) == \A e \in LayoutFromTemplate : HasAsset(f, e[2])

\* C2 as stated, read with the seven templates in the asset store: with a
\* valid name and an empty output_dir, create succeeds and the six __init__
\* files of the layout, app/routers/__init__ among them, are zero-length
\* while the seven template files are non-empty copies of their template.
C2_LayoutAsStated ==
  \A p \in Procs :
    (IntoEmptyOutputDir(p) /\ TemplatesShipped(fs0[p])) =>
      /\ OnlyEnvironmentStops(p)
      /\ pc[p] = "done" =>
           /\ \A t \in LayoutEmpty \cup {LayoutRoutersInit} : ZeroLength(fs, PD(p) \o t)
           /\ \A e \in LayoutFromTemplate :
                /\ NonEmptyFile(fs, PD(p) \o e[1])
                /\ fs[PD(p) \o e[1]].data = fs[Append(assets_dir, e[2])].data

\* C2 as amended: with a valid name and an empty output_dir, create succeeds
\* unless the environment refuses a write, and every path of the layout
\* exists: the five __init__ files of app, app/core, app/services,
\* app/schemas and tests are zero-length; app/routers/__init__ is a copy of
\* the template routers_init.py, and each of the seven template files a copy
\* of its template, non-empty when the asset store holds the template and
\* zero-length when it does not.
C2_LayoutAsBuilt ==
  \A p \in Procs :
    IntoEmptyOutputDir(p) =>
      /\ OnlyEnvironmentStops(p)
      /\ pc[p] = "done" =>
           /\ \A t \in LayoutEmpty : ZeroLength(fs, PD(p) \o t)
           /\ CopyOrEmpty(fs, PD(p) \o LayoutRoutersInit, "routers_init.py")
           /\ \A e \in LayoutFromTemplate : CopyOrEmpty(fs, PD(p) \o e[1], e[2])

\* C2 witness: a finished run into an empty output_dir whose
\* app/routers/__init__.py is the non-empty template and whose
\* tests/conftest.py is empty for want of the asset.
C2_Witness ==
  /\ IntoEmptyOutputDir(1)
  /\ pc[1] = "done"
  /\ NonEmptyFile(fs, PD(1) \o LayoutRoutersInit)
  /\ NonEmptyFile(fs, PD(1) \o <<"app", "main.py">>)
  /\ ZeroLength(fs, PD(1) \o <<"tests", "conftest.py">>)

\* C3: after a successful create, .env.example holds the project name passed
\* in as the value of PROJECT_NAME.
C3_EnvExampleNamesProject ==
  \A p \in Procs :
    pc[p] = "done" =>
      /\ IsFile(fs, Append(PD(p), ".env.example"))
      /\ <<"PROJECT_NAME=", args[p].project_name>>
           \in Range(fs[Append(PD(p), ".env.example")].data)

\* The step of create_project that creates or writes path q: 0 for
\* project_dir and its ancestors, k for entry k of TEMPLATES (a directory
\* belongs to the first entry below it), Len(TEMPLATES) + k for entry k of
\* ROOT_FILES, then .env.example and README.md.
LastStep == Len(TEMPLATES) + Len(ROOT_FILES) + 2

StepOf(pd, q) ==
  LET rel == SubSeq(q, Len(pd) + 1, Len(q))
      ts  == {k \in 1..Len(TEMPLATES) : IsPrefix(rel, TEMPLATES[k].target)}
      rs  == {k \in 1..Len(ROOT_FILES) : rel = ROOT_FILES[k].target}
  IN  IF IsPrefix(q, pd) THEN 0
      ELSE IF ~IsPrefix(pd, q) THEN LastStep + 1
      ELSE IF ts # {} THEN CHOOSE k \in ts : \A j \in ts : k <= j
      ELSE IF rs # {} THEN Len(TEMPLATES) + (CHOOSE k \in rs : TRUE)
      ELSE IF rel = <<".env.example">> THEN LastStep - 1
      ELSE IF rel = <<"README.md">> THEN LastStep
      ELSE LastStep + 1

\* What a failed run leaves: the steps after the failing one were not run,
\* and what was written before it is still on disk.
AbortedNoRollback(p) ==
  /\ \A w \in written[p] : Exists(fs, w) /\ StepOf(PD(p), w) <= StepOf(PD(p), ret[p].path)
  /\ \A q \in DOMAIN fs \ DOMAIN fs0[p] : StepOf(PD(p), q) <= StepOf(PD(p), ret[p].path)
  /\ \A q \in DOMAIN fs0[p] : Exists(fs, q)

C5_EmptyNameRejected ==
  \A p \in Procs :
    (Called(p) /\ args[p].project_name = "") =>
      /\ fs = fs0[p]
      /\ written[p] = {}
      /\ pc[p] # "done"
      /\ pc[p] \in Terminal => ExitCode(ret[p]) # 0

\* C6: a manifest entry whose template has no asset never fails the run: a
\* finished run returns 0 and has a zero-length file at the target of every
\* such TEMPLATES entry and no file at the target of every such ROOT_FILES
\* entry, and no run fails over an asset.
C6_LenientDegradation ==
  \A p \in Procs :
    /\ pc[p] = "done" =>
         /\ ret[p] = Returned(0)
         /\ \A i \in 1..Len(TEMPLATES) :
              (TEMPLATES[i].source # "" /\ ~HasAsset(fs0[p], TEMPLATES[i].source))
                => ZeroLength(fs, PD(p) \o TEMPLATES[i].target)
         /\ \A i \in 1..Len(ROOT_FILES) :
              ~HasAsset(fs0[p], ROOT_FILES[i].source)
                => ~Exists(fs, PD(p) \o ROOT_FILES[i].target)
    /\ pc[p] = "failed" =>
         /\ ~IsPrefix(assets_dir, ret[p].path)
         /\ ret[p].exc \in {"OSError", "FileExistsError", "NotADirectoryError"}

\* C6 witness: a finished run with no asset for conftest.py or Dockerfile.
C6_Witness ==
  /\ pc[1] = "done"
  /\ ~HasAsset(fs, "conftest.py")
  /\ ~HasAsset(fs, "Dockerfile")
  /\ HasAsset(fs, "main.py")
  /\ ZeroLength(fs, PD(1) \o <<"tests", "conftest.py">>)

\* The edges of the state machine of one invocation.  Start is "exists",
\* DestinationChecked is "mkdir" with the two further steps of pathlib's
\* mkdir, DirectoryCreated is "templates" before the first entry, Copying is
\* "templates" and "root_files", Synthesizing is "env_example" and "readme".
Edges ==
  { <<"exists", "mkdir">>, <<"exists", "rejected">>,
    <<"mkdir", "mkdir_parents">>, <<"mkdir_parents", "mkdir_retry">>,
    <<"mkdir", "templates">>, <<"mkdir_retry", "templates">>,
    <<"templates", "root_files">>, <<"root_files", "env_example">>,
    <<"env_example", "readme">>, <<"readme", "done">> }
  \cup { <<a, "failed">> : a \in {"mkdir", "mkdir_parents", "mkdir_retry", "templates",
                                  "root_files", "env_example", "readme"} }
  \cup { <<a, "exists">> : a \in Terminal \cup {"idle"} }

AllT == 1..Len(TEMPLATES)

AllR == 1..Len(ROOT_FILES)

C7_Order ==
  \A p \in Procs :
    Called(p) =>
      /\ pc[p] \in {"exists", "rejected"} => written[p] = {} /\ fs = fs0[p]
      /\ pc[p] = "rejected" => ret[p] = Returned(1)
      /\ (\E w \in written[p] : w # PD(p) /\ IsPrefix(PD(p), w))
           => PD(p) \in written[p] /\ IsDir(fs, PD(p))
      /\ pc[p] \in {"templates", "root_files", "env_example", "readme", "done"}
           => PD(p) \in written[p]
      /\ inOrder[p]
      /\ doneT[p] = 1..Cardinality(doneT[p])
      /\ doneR[p] = 1..Cardinality(doneR[p])
      /\ \A i \in AllT : PD(p) \o TEMPLATES[i].target \in written[p]
                           => \A j \in 1..(i - 1) : j \in doneT[p]
      /\ (doneR[p] # {} \/ pc[p] = "root_files") => doneT[p] = AllT
      /\ \A i \in AllR : PD(p) \o ROOT_FILES[i].target \in written[p]
                           => doneT[p] = AllT /\ \A j \in 1..(i - 1) : j \in doneR[p]
      /\ Append(PD(p), ".env.example") \in written[p] => doneT[p] = AllT /\ doneR[p] = AllR
      /\ Append(PD(p), "README.md") \in written[p]
           => /\ Append(PD(p), ".env.example") \in written[p]
              /\ fs[Append(PD(p), ".env.example")].data = EnvExampleText
      /\ pc[p] = "done" <=> ret[p] = Returned(0)
      /\ pc[p] = "done" =>
           /\ Append(PD(p), "README.md") \in written[p]
           /\ fs[Append(PD(p), "README.md")].data = ReadmeText(args[p].project_name)

C7_Step ==
  \A p \in Procs :
    /\ pc'[p] # pc[p] => <<pc[p], pc'[p]>> \in Edges
    /\ (pc'[p] = pc[p] /\ doneT'[p] # doneT[p])
         => pc[p] = "templates" /\ doneT'[p] = doneT[p] \cup {Cardinality(doneT[p]) + 1}
    /\ (pc'[p] = pc[p] /\ doneR'[p] # doneR[p])
         => pc[p] = "root_files" /\ doneR'[p] = doneR[p] \cup {Cardinality(doneR[p]) + 1}
    /\ (pc[p] = "exists" /\ pc'[p] = "mkdir") => ~Exists(fs, PD(p))
    /\ (pc[p] = "exists" /\ pc'[p] = "rejected") => Exists(fs, PD(p)) /\ fs' = fs

\* C7: every invocation follows Start -> DestinationChecked ->
\* DirectoryCreated -> Copying -> Synthesizing -> Done, skipping and
\* revisiting nothing: project_dir is created before any file is written,
\* the TEMPLATES entries are done in manifest order before any ROOT_FILES
\* entry, those in manifest order before .env.example, that before
\* README.md, and 0 is returned only after README.md is written; a run is
\* rejected only at the destination check, with nothing written, and fails
\* only after it.
C7_StateMachine == []C7_Order /\ [][C7_Step]_vars

\* C7 witness: a run that went through every state and returned 0.
C7_Witness ==
  /\ pc[1] = "done"
  /\ doneT[1] = AllT
  /\ doneR[1] = AllR
  /\ IsFile(fs, PD(1) \o <<"pyproject.toml">>)

\* The invocation created project_dir.
Entered(p) == PD(p) \in written[p]

\* C8: of two invocations with the same output_dir/project_name, under every
\* interleaving, at most one gets past the creation of project_dir and writes
\* into it; the other ends rejected or failed and creates, overwrites or
\* truncates nothing at or under project_dir.
C8_OneCreator ==
  \A p \in Procs : \A q \in Procs \ {p} :
    (Called(p) /\ Called(q) /\ PD(p) = PD(q)) =>
      /\ ~(Entered(p) /\ Entered(q))
      /\ pc[q] \in {"templates", "root_files", "env_example", "readme", "done"} => Entered(q)
      /\ ~Entered(q) =>
           /\ \A w \in written[q] : ~IsPrefix(PD(q), w)
           /\ pc[q] \in Terminal => pc[q] \in {"rejected", "failed"}

\* C8 witness: both invocations passed the exists() check; one created the
\* directory and finished, the other's mkdir raised FileExistsError.
C8_Witness ==
  /\ pc[1] = "done"
  /\ pc[2] = "failed"
  /\ PD(1) = PD(2)
  /\ ret[2].exc = "FileExistsError"
  /\ ret[2].path = PD(2)

\* C9: the order of the entries within each manifest has no effect on the
\* result: a run that takes them in any order and succeeds leaves the
\* filesystem that the run in manifest order leaves from the same initial
\* filesystem and asset store.
C9_OrderIrrelevant ==
  \A p \in Procs :
    pc[p] = "done" => fs = create_project(fs0[p], args[p])

\* C9 witness: a finished run that did not take the entries in manifest order.
C9_Witness ==
  /\ pc[1] = "done"
  /\ ~inOrder[1]
  /\ HasAsset(fs, "main.py")

\* C10: for a project name that is a single path segment, everything create
\* creates or writes lies at or below output_dir/project_name, or is a
\* missing ancestor directory of it, and everything that was there before
\* the call, the template assets included, is unchanged in every outcome.
C10_Frame ==
  \A p \in Procs :
    (Called(p) /\ ValidName(args[p].project_name)) =>
      /\ \A q \in DOMAIN fs0[p] : Exists(fs, q) /\ fs[q] = fs0[p][q]
      /\ \A q \in (DOMAIN fs \ DOMAIN fs0[p]) \cup written[p] :
           \/ IsPrefix(PD(p), q)
           \/ IsPrefix(q, PD(p)) /\ IsDir(fs, q) /\ ~Exists(fs0[p], q)

\* C10 witness: a finished run beside a file that was in output_dir before,
\* and a failed run that had to create output_dir itself.
C10_Witness ==
  /\ ValidName(args[1].project_name)
  /\ \/ pc[1] = "done" /\ IsFile(fs0[1], <<"tmp", "out", "notes.txt">>)
     \/ pc[1] = "failed" /\ ~Exists(fs0[1], <<"tmp">>) /\ Exists(fs, PD(1) \o <<"app">>)

====
